---- MODULE Spec2Model ----
(***************************************************************************)
(* A model of presetIndex (modules/presets/index.js): the preset catalog   *)
(* (collection, fields, defaults), the (geometry, tag key) index built by  *)
(* all.build, the matcher all.matchTags, the asynchronous reload           *)
(* all.fromExternal, and the favorites / recents ribbon lists.             *)
(*                                                                         *)
(* JavaScript values are modelled as follows.                              *)
(*  - An ordered mapping (an object literal, iterated by for-in or by      *)
(*    Object.keys) is a sequence of <<key, value>> pairs.                  *)
(*  - undefined / null is the record NoPreset (for a preset), NoItem (for   *)
(*    a ribbon item) and NullList (for _favorites, _recents, a storage     *)
(*    slot and the result of moveItem); a list that is not null is         *)
(*    List(items).                                                         *)
(*  - A preset object is a record; its identity is (id, gen), gen being    *)
(*    the number of the build pass, since the collection was last emptied, *)
(*    whose presetPreset call made it.                                     *)
(***************************************************************************)
EXTENDS Integers, Sequences, FiniteSets, TLC

\* Bounds of the model.
MaxBuilds == 4      \* build passes since the collection was last emptied
MaxCalls == 2       \* fromExternal calls in one behaviour
MaxOps == 3         \* favorites / recents operations in one behaviour

(***************************************************************************)
(* Data                                                                    *)
(***************************************************************************)
Geometries == {"point", "vertex", "line", "area", "relation"}

\* Tag keys that appear in a catalog or on an entity.
Keys == {"shop", "amenity", "highway", "leisure", "type", "area", "craft",
         "addr:*", "addr:housenumber"}

\* /^addr:/.test(k)
IsAddrKey(k) == k \in {"addr:*", "addr:housenumber"}

NoPreset == [id |-> "undefined"]

Raw(id, tags, geometry) ==
    [id |-> id, tags |-> tags, geometry |-> geometry, searchable |-> TRUE,
     suggestion |-> FALSE, replacement |-> FALSE]

\* data.presets.presets, in Object.keys order.
BuiltinPresets ==
    << Raw("point", <<>>, <<"point">>),
       Raw("line", <<>>, <<"line">>),
       Raw("area", << <<"area", "yes">> >>, <<"area">>),
       Raw("relation", <<>>, <<"relation">>),
       Raw("address", << <<"addr:*", "*">> >>, <<"point", "vertex", "area">>),
       Raw("shop", << <<"shop", "*">> >>, <<"point", "area">>),
       Raw("bakery", << <<"shop", "bakery">> >>, <<"point", "vertex">>),
       Raw("pedestrian", << <<"highway", "pedestrian">> >>, <<"line", "area">>),
       [Raw("multipolygon", << <<"type", "multipolygon">> >>, <<"area", "relation">>)
            EXCEPT !.searchable = FALSE],
       [Raw("cafe_brand", << <<"amenity", "cafe">>, <<"shop", "coffee">> >>,
            <<"point", "area">>) EXCEPT !.suggestion = TRUE],
       [Raw("common", << <<"leisure", "common">> >>, <<"area">>)
            EXCEPT !.replacement = TRUE] >>

AllGeometryDefaults(a, l, p, v, r) ==
    [area |-> a, line |-> l, point |-> p, vertex |-> v, relation |-> r]

\* data.presets: the built-in catalog.
Builtin ==
    [fields |-> << [id |-> "name", universal |-> TRUE],
                   [id |-> "opening_hours", universal |-> FALSE] >>,
     presets |-> BuiltinPresets,
     categories |-> << [id |-> "category-building", geometry |-> <<"area">>] >>,
     hasDefaults |-> TRUE,
     defaults |-> AllGeometryDefaults(<<"multipolygon">>, <<"pedestrian">>,
                                      <<"shop", "bakery">>, <<"address">>,
                                      <<"multipolygon">>)]

\* External catalogs a fetch can deliver.  ext1 replaces two built-in presets
\* by id (bakery with another geometry and tag pattern, address with another
\* geometry) and adds a preset, a field and a category of its own.
Ext1 ==
    [fields |-> << [id |-> "name", universal |-> TRUE],
                   [id |-> "ext1_field", universal |-> FALSE] >>,
     presets |-> << Raw("bakery", << <<"craft", "bakery">> >>, <<"point">>),
                    Raw("address", << <<"addr:*", "*">> >>, <<"point">>),
                    Raw("kiosk", << <<"shop", "kiosk">> >>, <<"point", "area">>) >>,
     categories |-> << [id |-> "category-ext1", geometry |-> <<"point">>] >>,
     hasDefaults |-> FALSE,
     defaults |-> AllGeometryDefaults(<<>>, <<>>, <<>>, <<>>, <<>>)]

Ext2 ==
    [fields |-> << [id |-> "ext2_field", universal |-> TRUE] >>,
     presets |-> << Raw("shop", << <<"shop", "*">> >>, <<"point">>),
                    Raw("florist", << <<"shop", "florist">> >>, <<"point", "vertex">>) >>,
     categories |-> <<>>,
     hasDefaults |-> TRUE,
     defaults |-> AllGeometryDefaults(<<"area">>, <<"line">>, <<"florist">>,
                                      <<"florist">>, <<"relation">>)]

\* A catalog whose defaults lack the area list: d.defaults.area.map throws.
ExtBad ==
    [fields |-> << [id |-> "bad_field", universal |-> FALSE] >>,
     presets |-> << Raw("badshop", << <<"shop", "bad">> >>, <<"point">>) >>,
     categories |-> <<>>,
     hasDefaults |-> TRUE,
     defaults |-> [point |-> <<"badshop">>]]

\* A catalog of four presets that list every geometry a ribbon item can have.
ExtWide ==
    [fields |-> <<>>,
     presets |-> << Raw("wide1", << <<"craft", "wide1">> >>, <<"point", "line", "area", "relation">>),
                    Raw("wide2", << <<"craft", "wide2">> >>, <<"point", "line", "area", "relation">>),
                    Raw("wide3", << <<"craft", "wide3">> >>, <<"point", "line", "area", "relation">>),
                    Raw("wide4", << <<"craft", "wide4">> >>, <<"point", "line", "area", "relation">>) >>,
     categories |-> <<>>,
     hasDefaults |-> FALSE,
     defaults |-> AllGeometryDefaults(<<>>, <<>>, <<>>, <<>>, <<>>)]

CatalogNames == {"builtin", "ext1", "ext2", "extBad"}

Catalog(name) ==
    CASE name = "builtin" -> Builtin
      [] name = "ext1" -> Ext1
      [] name = "ext2" -> Ext2
      [] name = "extBad" -> ExtBad
      [] name = "extWide" -> ExtWide

(***************************************************************************)
(* Presets and the preset collection (preset.js, category.js, collection.js)*)
(***************************************************************************)
HasKey(tags, k) == \E i \in 1..Len(tags) : tags[i][1] = k

TagValue(tags, k) == tags[CHOOSE i \in 1..Len(tags) : tags[i][1] = k][2]

SeqHas(s, x) == \E i \in 1..Len(s) : s[i] = x

\* presetPreset(id, p, _fields, isVisible, rawPresets)
PresetPreset(id, p, isVisible, gen) ==
    [id |-> id, tags |-> p.tags, geometry |-> p.geometry,
     searchable |-> p.searchable, suggestion |-> p.suggestion,
     replacement |-> p.replacement, visible |-> isVisible, gen |-> gen,
     kind |-> "preset"]

\* presetCategory(id, c, all): a collection entry without a tag pattern.
PresetCategory(id, c, gen) ==
    [id |-> id, tags |-> <<>>, geometry |-> c.geometry, searchable |-> TRUE,
     suggestion |-> FALSE, replacement |-> FALSE, visible |-> TRUE, gen |-> gen,
     kind |-> "category"]

\* presetField(id, f)
PresetField(id, f, gen) == [id |-> id, universal |-> f.universal, gen |-> gen]

\* preset.matchScore(entityTags), in half points: a literal match counts 2,
\* a wildcard match 1, and any pattern key that does not match gives -1.
RECURSIVE MatchScoreFrom(_, _, _, _)
MatchScoreFrom(tags, i, entityTags, score) ==
    IF i > Len(tags) THEN score
    ELSE LET k == tags[i][1]
             v == tags[i][2]
         IN  IF HasKey(entityTags, k) /\ TagValue(entityTags, k) = v
                 THEN MatchScoreFrom(tags, i + 1, entityTags, score + 2)
             ELSE IF v = "*" /\ HasKey(entityTags, k)
                 THEN MatchScoreFrom(tags, i + 1, entityTags, score + 1)
             ELSE -1

MatchScore(preset, entityTags) == MatchScoreFrom(preset.tags, 1, entityTags, 0)

\* preset.isFallback()
IsFallback(preset) ==
    \/ Len(preset.tags) = 0
    \/ Len(preset.tags) = 1 /\ HasKey(preset.tags, "area")

\* preset.matchGeometry(geometry)
MatchGeometry(preset, geometry) == SeqHas(preset.geometry, geometry)

\* collection.index(id): the 0-based position of the entry with that id, or -1.
CollectionIndex(coll, id) ==
    IF \E i \in 1..Len(coll) : coll[i].id = id
        THEN (CHOOSE i \in 1..Len(coll) :
                 coll[i].id = id /\ \A j \in 1..(i - 1) : coll[j].id # id) - 1
        ELSE -1

\* collection.item(id): the first entry with that id, or undefined.
Item(coll, id) ==
    IF CollectionIndex(coll, id) = -1 THEN NoPreset
    ELSE coll[CollectionIndex(coll, id) + 1]

\* collection.fallback(geometry)
Fallback(coll, geometry) ==
    Item(coll, IF geometry = "vertex" THEN "point" ELSE geometry)

(***************************************************************************)
(* all.build                                                               *)
(***************************************************************************)
EmptyIndex == [g \in Geometries |-> [k \in Keys |-> <<>>]]

\* _defaults = { area: all, ... }: every entry is the index object itself.
AllDefaults == [g \in Geometries |-> "all"]

\* Object.keys(d).forEach(id => existing !== -1 ? collection[existing] = obj
\*                                               : collection.push(obj)),
\* objs being the objects made for the ids of d, in Object.keys order (each
\* id once): the entry all.index(id) finds is replaced in place, an object
\* with a new id is appended.
ReplaceOrPush(coll, objs) ==
    [i \in 1..Len(coll) |->
        IF i = CollectionIndex(coll, coll[i].id) + 1
           /\ \E j \in 1..Len(objs) : objs[j].id = coll[i].id
            THEN objs[CHOOSE j \in 1..Len(objs) : objs[j].id = coll[i].id]
            ELSE coll[i]]
    \o SelectSeq(objs, LAMBDA o : CollectionIndex(coll, o.id) = -1)

\* Object.keys(d.fields).forEach: _fields[id] = presetField(id, f)
BuildFields(flds, raws, gen) ==
    ReplaceOrPush(flds, [i \in 1..Len(raws) |-> PresetField(raws[i].id, raws[i], gen)])

\* if (f.universal) _universal.push(_fields[id])
BuildUniversal(univ, raws, gen) ==
    univ \o SelectSeq([i \in 1..Len(raws) |-> PresetField(raws[i].id, raws[i], gen)],
                      LAMBDA f : f.universal)

\* Object.keys(d.presets).forEach: replace by id or push
BuildPresets(coll, raws, visible, gen) ==
    ReplaceOrPush(coll, [i \in 1..Len(raws) |->
                            PresetPreset(raws[i].id, raws[i], visible, gen)])

\* Object.keys(d.categories).forEach: replace by id or push
BuildCategories(coll, raws, gen) ==
    ReplaceOrPush(coll, [i \in 1..Len(raws) |-> PresetCategory(raws[i].id, raws[i], gen)])

\* d.defaults.<g>.map(getItem)
MapGetItem(coll, ids) == [i \in 1..Len(ids) |-> Item(coll, ids[i])]

\* The index pass of build:
\*   for i in collection, for j in preset.geometry, for k in preset.tags:
\*       (g[k] = g[k] || []).push(preset)
\* Every bucket (g, k) receives, in collection order, the presets that list g
\* and have the key k (a geometry list names each kind once, a tag pattern
\* each key once).
IndexPass(idx, coll) ==
    [g \in Geometries |-> [k \in Keys |->
        idx[g][k] \o SelectSeq(coll, LAMBDA p : MatchGeometry(p, g) /\ HasKey(p.tags, k))]]

\* The catalog part of the state, as one record.
CatalogState(coll, idx, flds, univ, defs, n) ==
    [collection |-> coll, index |-> idx, fields |-> flds, universal |-> univ,
     defaults |-> defs, builds |-> n, threw |-> FALSE]

\* all.build(d, visible) applied to the catalog state s.  The build throws,
\* after the fields, presets and categories are stored and before the index
\* pass, when d.defaults lacks one of the five geometry lists.
Build(s, d, visible) ==
    LET gen == s.builds + 1
        flds == BuildFields(s.fields, d.fields, gen)
        univ == BuildUniversal(s.universal, d.fields, gen)
        coll1 == BuildPresets(s.collection, d.presets, visible, gen)
        coll == BuildCategories(coll1, d.categories, gen)
        bad == d.hasDefaults /\ DOMAIN d.defaults # Geometries
        defs == IF d.hasDefaults /\ ~bad
                    THEN [g \in Geometries |-> MapGetItem(coll, d.defaults[g])]
                    ELSE s.defaults
    IN  [collection |-> coll,
         index |-> IF bad THEN s.index ELSE IndexPass(s.index, coll),
         fields |-> flds, universal |-> univ, defaults |-> defs,
         builds |-> gen, threw |-> bad]

\* all.init() without its "_index = { point: {}, ... }": the buckets are kept.
InitKeepingIndex(s) ==
    Build(CatalogState(<<>>, s.index, <<>>, <<>>, s.defaults, 0), Builtin, TRUE)

\* all.init(): everything but _defaults is emptied, then the built-in catalog
\* is built visible.
InitIndex(s) ==
    Build(CatalogState(<<>>, EmptyIndex, <<>>, <<>>, s.defaults, 0), Builtin, TRUE)

\* all.reset()
ResetIndex(s) == CatalogState(<<>>, EmptyIndex, <<>>, <<>>, AllDefaults, 0)

\* The then-handler of fromExternal: the built-in catalog hidden, then the
\* external catalog visible.  If the second build throws the catch-handler
\* runs all.init(); caught tells whether it did.
ThenHandler(s, ext) ==
    LET s1 == Build(s, Builtin, FALSE)
        s2 == Build(s1, ext, TRUE)
    IN  [caught |-> s2.threw] @@ (IF s2.threw THEN InitIndex(s2) ELSE s2)

(***************************************************************************)
(* all.matchTags                                                           *)
(***************************************************************************)
\* for (var i = 0; i < keyMatches.length; i++): acc is [best, match]
\* the inner loop with "score >= best"
RECURSIVE ScanBucketLastWins(_, _, _, _)
ScanBucketLastWins(keyMatches, i, tags, acc) ==
    IF i > Len(keyMatches) THEN acc
    ELSE LET score == MatchScore(keyMatches[i], tags)
         IN  ScanBucketLastWins(keyMatches, i + 1, tags,
                        IF score >= acc.best
                            THEN [acc EXCEPT !.best = score, !.match = keyMatches[i]]
                            ELSE acc)

RECURSIVE ScanBucket(_, _, _, _)
ScanBucket(keyMatches, i, tags, acc) ==
    IF i > Len(keyMatches) THEN acc
    ELSE LET score == MatchScore(keyMatches[i], tags)
         IN  ScanBucket(keyMatches, i + 1, tags,
                        IF score > acc.best
                            THEN [acc EXCEPT !.best = score, !.match = keyMatches[i]]
                            ELSE acc)

\* for (var k in tags): acc is [address, best, match]
RECURSIVE ScanTags(_, _, _, _)
ScanTags(geometryMatches, tags, i, acc) ==
    IF i > Len(tags) THEN acc
    ELSE LET k == tags[i][1]
             acc1 == IF IsAddrKey(k) /\ geometryMatches["addr:*"] # <<>>
                         THEN [acc EXCEPT !.address = geometryMatches["addr:*"][1]]
                         ELSE acc
         IN  ScanTags(geometryMatches, tags, i + 1,
                      ScanBucket(geometryMatches[k], 1, tags, acc1))

\* The best-scoring indexed candidate and the address candidate.
BestMatch(idx, tags, geometry) ==
    ScanTags(idx[geometry], tags, 1,
             [address |-> NoPreset, best |-> -1, match |-> NoPreset])

\* matchTags with "if (address && !match)": a fallback match is kept.
MatchTagsKeepingFallback(idx, coll, tags, geometry) ==
    LET r == BestMatch(idx, tags, geometry)
        match == IF r.address # NoPreset /\ r.match = NoPreset THEN r.address
                 ELSE r.match
    IN  IF match # NoPreset THEN match ELSE Fallback(coll, geometry)

MatchTags(idx, coll, tags, geometry) ==
    LET r == BestMatch(idx, tags, geometry)
        match == IF r.address # NoPreset /\ (r.match = NoPreset \/ IsFallback(r.match))
                     THEN r.address
                     ELSE r.match
    IN  IF match # NoPreset THEN match ELSE Fallback(coll, geometry)

(***************************************************************************)
(* all.areaKeys                                                            *)
(***************************************************************************)
\* var ignore = ['barrier', 'highway', 'footway', 'railway', 'type']
IgnoredKeys == {"barrier", "highway", "footway", "railway", "type"}

\* for (var key in d.tags) break;  "" when the preset has no tag
FirstKey(d) == IF d.tags = <<>> THEN "" ELSE d.tags[1][1]

\* The whitelist pass from preset i on; areaKeys is the object so far, a
\* sequence of <<key, values>> in insertion order.
RECURSIVE Whitelist(_, _, _, _)
Whitelist(presets, i, areaKeys, ignore) ==
    IF i > Len(presets) THEN areaKeys
    ELSE Whitelist(presets, i + 1,
             IF \/ FirstKey(presets[i]) = ""
                \/ FirstKey(presets[i]) \in ignore
                \/ ~SeqHas(presets[i].geometry, "area")
                \/ HasKey(areaKeys, FirstKey(presets[i]))
                 THEN areaKeys
                 ELSE Append(areaKeys, <<FirstKey(presets[i]), <<>> >>),
             ignore)

\* areaKeys[key][value] = true
SetValue(areaKeys, key, value) ==
    [j \in 1..Len(areaKeys) |->
        IF areaKeys[j][1] = key /\ ~SeqHas(areaKeys[j][2], value)
            THEN <<key, Append(areaKeys[j][2], value)>>
            ELSE areaKeys[j]]

\* The blacklist pass from preset i on.
RECURSIVE Blacklist(_, _, _, _)
Blacklist(presets, i, areaKeys, ignore) ==
    IF i > Len(presets) THEN areaKeys
    ELSE Blacklist(presets, i + 1,
             IF \/ FirstKey(presets[i]) = ""
                \/ FirstKey(presets[i]) \in ignore
                \/ ~HasKey(areaKeys, FirstKey(presets[i]))
                \/ ~SeqHas(presets[i].geometry, "line")
                \/ presets[i].tags[1][2] = "*"
                 THEN areaKeys
                 ELSE SetValue(areaKeys, FirstKey(presets[i]), presets[i].tags[1][2]),
             ignore)

\* ignore name-suggestion-index and deprecated presets
AreaKeysPresets(coll) == SelectSeq(coll, LAMBDA p : ~p.suggestion /\ ~p.replacement)

\* areaKeys with an empty ignore list
AreaKeysIgnoringNothing(coll) ==
    Blacklist(AreaKeysPresets(coll), 1, Whitelist(AreaKeysPresets(coll), 1, <<>>, {}), {})

\* all.areaKeys()
AreaKeys(coll) ==
    Blacklist(AreaKeysPresets(coll), 1,
              Whitelist(AreaKeysPresets(coll), 1, <<>>, IgnoredKeys), IgnoredKeys)

(***************************************************************************)
(* Ribbon items and the favorites / recents lists                          *)
(***************************************************************************)
\* if (favs.length === 10)
MaxFavorites == 10

\* if (items.length === 30)
MaxRecents == 30

NoItem == [preset |-> NoPreset, geometry |-> "null", source |-> "null"]

NullList == [null |-> TRUE, items |-> <<>>]

List(items) == [null |-> FALSE, items |-> items]

RibbonItem(preset, geometry, source) ==
    [preset |-> preset, geometry |-> geometry, source |-> source]

\* item.matches(preset, geometry)
Matches(item, preset, geometry) ==
    item.preset.id = preset.id /\ item.geometry = geometry

\* item.minified()
Minified(item) == [pID |-> item.preset.id, geom |-> item.geometry]

\* the minified list without its last item
MinifiedItemsButLast(items) ==
    [i \in 1..(Len(items) - 1) |-> Minified(items[i])]

\* items.map(function(d) { return d.minified(); }): what JSON.stringify is
\* given.  A stored string is modelled by the array it encodes: an array of
\* objects with the two string properties pID and geom, which JSON.parse
\* gives back unchanged.
MinifiedItems(items) == [i \in 1..Len(items) |-> Minified(items[i])]

\* ribbonItemForMinified(d, source); a missing pID or geom is the string "".
RibbonItemForMinified(coll, d, source) ==
    IF d.pID = "" \/ d.geom = "" THEN NoItem
    ELSE LET preset == Item(coll, d.pID)
             geom == IF d.geom = "vertex" THEN "point" ELSE d.geom
         IN  IF preset = NoPreset THEN NoItem
             ELSE IF \/ MatchGeometry(preset, geom)
                     \/ geom = "point" /\ MatchGeometry(preset, "vertex")
                 THEN RibbonItem(preset, geom, source)
             ELSE NoItem

\* (...).reduce(function(output, d) { var item = ribbonItemForMinified(d, source);
\*                                   if (item) output.push(item); return output; }, [])
LoadItems(coll, ds, source) ==
    SelectSeq([i \in 1..Len(ds) |-> RibbonItemForMinified(coll, ds[i], source)],
              LAMBDA item : item # NoItem)

\* use the generic presets as the default favorites
DefaultFavorites ==
    << [pID |-> "point", geom |-> "point"],
       [pID |-> "line", geom |-> "line"],
       [pID |-> "area", geom |-> "area"] >>

\* all.getFavorites(): the list, loaded from storage when _favorites is null
GetFavorites(favs, stored, coll) ==
    IF ~favs.null THEN favs.items
    ELSE LoadItems(coll, IF stored.null THEN DefaultFavorites ELSE stored.items, "favorite")

\* all.getRecents()
GetRecents(recs, stored, coll) ==
    IF ~recs.null THEN recs.items
    ELSE LoadItems(coll, IF stored.null THEN <<>> ELSE stored.items, "recent")

\* all.favoriteMatching / all.recentMatching, as items.indexOf(the item found):
\* the 0-based position of the first item that matches, or -1.
MatchingIndex(items, preset, geometry) ==
    IF \E i \in 1..Len(items) : Matches(items[i], preset, geometry)
        THEN (CHOOSE i \in 1..Len(items) :
                 /\ Matches(items[i], preset, geometry)
                 /\ \A j \in 1..(i - 1) : ~Matches(items[j], preset, geometry)) - 1
        ELSE -1

\* items.splice(i, 1), i a 0-based position
RemoveAt(items, i) == SubSeq(items, 1, i) \o SubSeq(items, i + 2, Len(items))

\* items.splice(i, 0, x)
InsertAt(items, i, x) == SubSeq(items, 1, i) \o <<x>> \o SubSeq(items, i + 1, Len(items))

\* items.pop()
Pop(items) == SubSeq(items, 1, Len(items) - 1)

\* toggleFavorite with favs.shift() in the place of favs.pop()
ToggleFavoriteDropFirst(favs, preset, geometry) ==
    IF MatchingIndex(favs, preset, geometry) # -1
        THEN RemoveAt(favs, MatchingIndex(favs, preset, geometry))
        ELSE Append(IF Len(favs) = MaxFavorites THEN Tail(favs) ELSE favs,
                    RibbonItem(preset, geometry, "favorite"))

\* all.toggleFavorite, on the loaded list and the normalised geometry
ToggleFavorite(favs, preset, geometry) ==
    IF MatchingIndex(favs, preset, geometry) # -1
        THEN RemoveAt(favs, MatchingIndex(favs, preset, geometry))
        ELSE Append(IF Len(favs) = MaxFavorites THEN Pop(favs) ELSE favs,
                    RibbonItem(preset, geometry, "favorite"))

\* addFavorite without the favoriteMatching test
AddFavoriteUnchecked(favs, preset, geometry) ==
    Append(favs, RibbonItem(preset, geometry, "favorite"))

\* all.addFavorite
AddFavorite(favs, preset, geometry) ==
    IF MatchingIndex(favs, preset, geometry) = -1
        THEN Append(favs, RibbonItem(preset, geometry, "favorite"))
        ELSE favs

\* all.removeFavorite / all.removeRecent: the list to set, null when no item
\* matches
RemoveMatching(items, preset, geometry) ==
    IF MatchingIndex(items, preset, geometry) # -1
        THEN List(RemoveAt(items, MatchingIndex(items, preset, geometry)))
        ELSE NullList

\* moveItem that exchanges the two items
MoveItemSwapping(items, fromIndex, toIndex) ==
    IF \/ fromIndex = toIndex
       \/ fromIndex < 0 \/ toIndex < 0
       \/ fromIndex >= Len(items) \/ toIndex >= Len(items)
        THEN NullList
        ELSE List([i \in 1..Len(items) |->
                     IF i = fromIndex + 1 THEN items[toIndex + 1]
                     ELSE IF i = toIndex + 1 THEN items[fromIndex + 1]
                     ELSE items[i]])

\* all.moveItem
MoveItem(items, fromIndex, toIndex) ==
    IF \/ fromIndex = toIndex
       \/ fromIndex < 0 \/ toIndex < 0
       \/ fromIndex >= Len(items) \/ toIndex >= Len(items)
        THEN NullList
        ELSE List(InsertAt(RemoveAt(items, fromIndex), toIndex, items[fromIndex + 1]))

\* setMostRecent without "if (items.length === 30) items.pop()"
SetMostRecentNoPop(items, preset, geometry) ==
    IF MatchingIndex(items, preset, geometry) # -1
        THEN <<items[MatchingIndex(items, preset, geometry) + 1]>>
             \o RemoveAt(items, MatchingIndex(items, preset, geometry))
        ELSE <<RibbonItem(preset, geometry, "recent")>> \o items

\* setMostRecent that always makes a new item and leaves the one found in place
SetMostRecentDuplicating(items, preset, geometry) ==
    <<RibbonItem(preset, geometry, "recent")>>
    \o (IF Len(items) = MaxRecents THEN Pop(items) ELSE items)

\* all.setMostRecent, past its two early returns
SetMostRecent(items, preset, geometry) ==
    LET i == MatchingIndex(items, preset, geometry)
        item == IF i # -1 THEN items[i + 1] ELSE RibbonItem(preset, geometry, "recent")
        rest == IF i # -1 THEN RemoveAt(items, i) ELSE items
    IN  <<item>> \o (IF Len(rest) = MaxRecents THEN Pop(rest) ELSE rest)

(***************************************************************************)
(* State                                                                   *)
(***************************************************************************)
VARIABLES
    collection,     \* all.collection
    index,          \* _index
    fields,         \* _fields, in insertion order
    universal,      \* _universal
    defaults,       \* _defaults
    builds,         \* build passes since the collection was last emptied
    favorites,      \* _favorites: NullList or the List of ribbon items
    recents,        \* _recents: NullList or the List of ribbon items
    storage,        \* context.storage: preset_favorites, preset_recents
    calls,          \* the fromExternal calls: fetch state and done() count
    batch,          \* what ran since the oldest fetch in flight was started
    ribbonOps,      \* favorites / recents operations performed
    last            \* the last operation: its inputs, result and pre-state

vars == <<collection, index, fields, universal, defaults, builds, favorites,
          recents, storage, calls, batch, ribbonOps, last>>

catalogVars == <<collection, index, fields, universal, defaults, builds>>

ribbonVars == <<favorites, recents, storage>>

\* The catalog variables as one record.
Cat == CatalogState(collection, index, fields, universal, defaults, builds)

\* The ids held by every bucket, in bucket order.
BucketIds(idx) ==
    [g \in Geometries |-> [k \in Keys |-> [i \in 1..Len(idx[g][k]) |-> idx[g][k][i].id]]]

SetCatalog(s) ==
    /\ collection' = s.collection
    /\ index' = s.index
    /\ fields' = s.fields
    /\ universal' = s.universal
    /\ defaults' = s.defaults
    /\ builds' = s.builds

CallIds == 1..MaxCalls

IdleCall == [st |-> "idle", ext |-> "none", done |-> 0]

Pending(c) == calls[c].st = "pending"

\* batch is "solo" while the calls made since no fetch was in flight did not
\* overlap, "overlap" once one of them was made while another was pending, and
\* "mixed" once init, build or reset ran while a fetch was pending.
BatchAfterCall ==
    IF \A c \in CallIds : ~Pending(c) THEN "solo"
    ELSE IF batch \in {"solo", "overlap"} THEN "overlap"
    ELSE "mixed"

BatchAfterDirect == IF \E c \in CallIds : Pending(c) THEN "mixed" ELSE "none"

\* The record of a catalog operation; rep is 2 when the operation before it
\* was the same operation with the same inputs.
CatalogOp(op, d, visible, c, threw) ==
    [op |-> op, d |-> d, visible |-> visible, call |-> c, threw |-> threw,
     rep |-> IF last.op = op /\ last.d = d /\ last.visible = visible /\ last.call = c
                 THEN 2 ELSE 1]

\* The state after presetIndex(context): nothing built, nothing loaded.
InitCatalog ==
    /\ collection = <<>>
    /\ index = EmptyIndex
    /\ fields = <<>>
    /\ universal = <<>>
    /\ defaults = AllDefaults
    /\ builds = 0
    /\ calls = [c \in CallIds |-> IdleCall]
    /\ batch = "none"
    /\ last = [op |-> "new", d |-> "none", visible |-> TRUE, call |-> 0,
               threw |-> FALSE, rep |-> 1]

Init ==
    /\ InitCatalog
    /\ favorites = NullList
    /\ recents = NullList
    /\ storage = [preset_favorites |-> NullList, preset_recents |-> NullList]
    /\ ribbonOps = 0

(***************************************************************************)
(* Catalog operations                                                      *)
(***************************************************************************)
\* all.init()
DoInit ==
    /\ SetCatalog(InitIndex(Cat))
    /\ favorites' = NullList
    /\ recents' = NullList
    /\ batch' = BatchAfterDirect
    /\ UNCHANGED calls
    /\ last' = CatalogOp("init", "builtin", TRUE, 0, FALSE)
    /\ UNCHANGED <<storage, ribbonOps>>

\* all.build(d, visible), visible a boolean
DoBuild(d, visible) ==
    /\ builds < MaxBuilds
    /\ LET s == Build(Cat, Catalog(d), visible)
       IN  /\ SetCatalog(s)
           /\ last' = CatalogOp("build", d, visible, 0, s.threw)
    /\ batch' = BatchAfterDirect
    /\ UNCHANGED calls
    /\ UNCHANGED <<ribbonVars, ribbonOps>>

\* all.reset()
DoReset ==
    /\ SetCatalog(ResetIndex(Cat))
    /\ favorites' = NullList
    /\ recents' = NullList
    /\ batch' = BatchAfterDirect
    /\ UNCHANGED calls
    /\ last' = CatalogOp("reset", "none", TRUE, 0, FALSE)
    /\ UNCHANGED <<storage, ribbonOps>>

\* all.fromExternal(external, done): reset now, the fetch left in flight
FromExternal(c, ext) ==
    /\ calls[c].st = "idle"
    /\ \A c2 \in CallIds : c2 < c => calls[c2].st # "idle"
    /\ SetCatalog(ResetIndex(Cat))
    /\ favorites' = NullList
    /\ recents' = NullList
    /\ calls' = [calls EXCEPT ![c] = [st |-> "pending", ext |-> ext, done |-> 0]]
    /\ batch' = BatchAfterCall
    /\ last' = CatalogOp("fromExternal", ext, TRUE, c, FALSE)
    /\ UNCHANGED <<storage, ribbonOps>>

\* .finally(function() { done(all); })
Finally(call) == [st |-> "finished", ext |-> "none", done |-> call.done + 1]

\* The fetch of call c is fulfilled: the then-handler (and, if it throws, the
\* catch-handler), then done(all).  The handlers of one settled promise run in
\* one microtask checkpoint, with no other task in between.
FetchThen(c) ==
    /\ Pending(c)
    /\ builds + 2 <= MaxBuilds
    /\ LET s == ThenHandler(Cat, Catalog(calls[c].ext))
       IN  /\ SetCatalog(s)
           /\ favorites' = IF s.caught THEN NullList ELSE favorites
           /\ recents' = IF s.caught THEN NullList ELSE recents
           /\ last' = CatalogOp("fetchThen", calls[c].ext, TRUE, c, s.caught)
    /\ calls' = [calls EXCEPT ![c] = Finally(calls[c])]
    /\ UNCHANGED batch
    /\ UNCHANGED <<storage, ribbonOps>>

\* The fetch of call c is rejected: the catch-handler runs all.init(), then
\* done(all).
FetchCatch(c) ==
    /\ Pending(c)
    /\ SetCatalog(InitIndex(Cat))
    /\ favorites' = NullList
    /\ recents' = NullList
    /\ calls' = [calls EXCEPT ![c] = Finally(calls[c])]
    /\ UNCHANGED batch
    /\ last' = CatalogOp("fetchCatch", calls[c].ext, TRUE, c, FALSE)
    /\ UNCHANGED <<storage, ribbonOps>>

\* The (d, visible) a caller gives to all.build.
BuildInputs == {<<"builtin", TRUE>>, <<"builtin", FALSE>>, <<"ext1", TRUE>>}

\* Entity tag sets given to matchTags, in for-in order.
TagSets ==
    { <<>>,
      << <<"shop", "bakery">> >>,
      << <<"shop", "florist">> >>,
      << <<"addr:housenumber", "1">> >>,
      << <<"area", "yes">>, <<"addr:housenumber", "1">> >>,
      << <<"addr:housenumber", "1">>, <<"shop", "bakery">> >>,
      << <<"shop", "kiosk">>, <<"amenity", "cafe">> >>,
      << <<"amenity", "cafe">>, <<"shop", "kiosk">> >> }

\* all.matchTags(tags, geometry), called for every tag set of TagSets and
\* every geometry: the catalog is only read, result[tags][geometry] is what
\* the call returned.
DoMatchTags ==
    /\ last' = [op |-> "matchTags", d |-> "none", visible |-> TRUE, call |-> 0,
                threw |-> FALSE, rep |-> 1,
                result |-> [tags \in TagSets |-> [geometry \in Geometries |->
                               MatchTags(index, collection, tags, geometry)]]]
    /\ UNCHANGED <<catalogVars, ribbonVars, calls, batch, ribbonOps>>

Next ==
    \/ DoInit
    \/ \E b \in BuildInputs : DoBuild(b[1], b[2])
    \/ DoReset
    \/ \E c \in CallIds, ext \in {"ext1", "ext2", "extBad"} : FromExternal(c, ext)
    \/ \E c \in CallIds : FetchThen(c)
    \/ \E c \in CallIds : FetchCatch(c)
    \/ DoMatchTags

Spec == Init /\ [][Next]_vars

\* all.areaKeys(): the catalog is only read.
DoAreaKeys ==
    /\ last' = [op |-> "areaKeys", d |-> "none", visible |-> TRUE, call |-> 0,
                threw |-> FALSE, rep |-> 1, result |-> AreaKeys(collection)]
    /\ UNCHANGED <<catalogVars, ribbonVars, calls, batch, ribbonOps>>

\* The catalog built by init, build and reset, and areaKeys called on it.
NextAreaKeys ==
    \/ DoInit
    \/ \E b \in BuildInputs \cup {<<"extWide", TRUE>>} : DoBuild(b[1], b[2])
    \/ DoReset
    \/ DoAreaKeys

SpecAreaKeys == Init /\ [][NextAreaKeys]_vars

(***************************************************************************)
(* Favorites and recents operations                                        *)
(***************************************************************************)
\* The record of a favorites / recents operation: its inputs (the geometry
\* as normalised by all.fallback), the list it found (pre), the events it
\* dispatched, and whether it threw.  rep is 2 when the operation before it
\* was the same operation with the same inputs; base is then the list that
\* operation found.
RibbonOp(op, pid, geometry, pre, events, threw) ==
    [op |-> op, pid |-> pid, geometry |-> geometry, pre |-> pre,
     events |-> events, threw |-> threw,
     rep |-> IF last.op = op /\ last.pid = pid /\ last.geometry = geometry THEN 2 ELSE 1,
     base |-> IF last.op = op /\ last.pid = pid /\ last.geometry = geometry
                  THEN last.pre ELSE pre]

\* An operation on the favorites: geometry = all.fallback(geometry).id throws
\* when there is no fallback preset; otherwise the list is loaded, and
\* replaced by the list to set and persisted (setFavorites) unless that is null.
FavoritesStep(op, pid, geometry, items) ==
    /\ ribbonOps' = ribbonOps + 1
    /\ IF geometry # "none" /\ Fallback(collection, geometry) = NoPreset
           THEN /\ last' = RibbonOp(op, pid, geometry, favorites.items, <<>>, TRUE)
                /\ UNCHANGED <<favorites, storage>>
           ELSE LET favs == GetFavorites(favorites, storage.preset_favorites, collection)
                    g == IF geometry = "none" THEN geometry
                         ELSE Fallback(collection, geometry).id
                IN  IF items.null
                        THEN /\ favorites' = List(favs)
                             /\ last' = RibbonOp(op, pid, g, favs, <<>>, FALSE)
                             /\ UNCHANGED storage
                        ELSE /\ favorites' = items
                             /\ storage' = [storage EXCEPT !.preset_favorites =
                                               List(MinifiedItems(items.items))]
                             /\ last' = RibbonOp(op, pid, g, favs, <<"favoritePreset">>, FALSE)
    /\ UNCHANGED <<catalogVars, recents, calls, batch>>

\* The loaded favorites and the normalised geometry, where there is a fallback.
Favs == GetFavorites(favorites, storage.preset_favorites, collection)

FallbackId(geometry) == Fallback(collection, geometry).id

\* all.toggleFavorite(preset, geometry), preset the collection's preset pid
DoToggleFavorite(pid, geometry) ==
    /\ ribbonOps < MaxOps
    /\ FavoritesStep("toggleFavorite", pid, geometry,
           IF Fallback(collection, geometry) = NoPreset THEN NullList
           ELSE List(ToggleFavorite(Favs, Item(collection, pid), FallbackId(geometry))))

\* all.addFavorite(preset, geometry)
DoAddFavorite(pid, geometry) ==
    /\ ribbonOps < MaxOps
    /\ FavoritesStep("addFavorite", pid, geometry,
           IF Fallback(collection, geometry) = NoPreset THEN NullList
           ELSE List(AddFavorite(Favs, Item(collection, pid), FallbackId(geometry))))

\* all.removeFavorite(preset, geometry)
DoRemoveFavorite(pid, geometry) ==
    /\ ribbonOps < MaxOps
    /\ FavoritesStep("removeFavorite", pid, geometry,
           IF Fallback(collection, geometry) = NoPreset THEN NullList
           ELSE RemoveMatching(Favs, Item(collection, pid), FallbackId(geometry)))

\* all.moveFavorite(fromIndex, toIndex)
DoMoveFavorite(fromIndex, toIndex) ==
    /\ ribbonOps < MaxOps
    /\ FavoritesStep("moveFavorite", <<fromIndex, toIndex>>, "none",
           MoveItem(Favs, fromIndex, toIndex))

\* An operation on the recents, likewise (setRecents).
RecentsStep(op, pid, geometry, skip, items) ==
    /\ ribbonOps' = ribbonOps + 1
    /\ IF skip
           THEN /\ last' = RibbonOp(op, pid, geometry, recents.items, <<>>, FALSE)
                /\ UNCHANGED <<recents, storage>>
       ELSE IF geometry # "none" /\ Fallback(collection, geometry) = NoPreset
           THEN /\ last' = RibbonOp(op, pid, geometry, recents.items, <<>>, TRUE)
                /\ UNCHANGED <<recents, storage>>
           ELSE LET recs == GetRecents(recents, storage.preset_recents, collection)
                    g == IF geometry = "none" THEN geometry
                         ELSE Fallback(collection, geometry).id
                IN  IF items.null
                        THEN /\ recents' = List(recs)
                             /\ last' = RibbonOp(op, pid, g, recs, <<>>, FALSE)
                             /\ UNCHANGED storage
                        ELSE /\ recents' = items
                             /\ storage' = [storage EXCEPT !.preset_recents =
                                               List(MinifiedItems(items.items))]
                             /\ last' = RibbonOp(op, pid, g, recs, <<"recentsChange">>, FALSE)
    /\ UNCHANGED <<catalogVars, favorites, calls, batch>>

Recs == GetRecents(recents, storage.preset_recents, collection)

\* all.setMostRecent(preset, geometry), inIntro what context.inIntro() returns
DoSetMostRecent(pid, geometry, inIntro) ==
    /\ ribbonOps < MaxOps
    /\ RecentsStep("setMostRecent", pid, geometry,
           inIntro \/ Item(collection, pid).searchable = FALSE,
           IF Fallback(collection, geometry) = NoPreset THEN NullList
           ELSE List(SetMostRecent(Recs, Item(collection, pid), FallbackId(geometry))))

\* all.removeRecent(preset, geometry)
DoRemoveRecent(pid, geometry) ==
    /\ ribbonOps < MaxOps
    /\ RecentsStep("removeRecent", pid, geometry, FALSE,
           IF Fallback(collection, geometry) = NoPreset THEN NullList
           ELSE RemoveMatching(Recs, Item(collection, pid), FallbackId(geometry)))

\* all.moveRecent(item, beforeItem): fromIndex and toIndex are what
\* recents.indexOf returns for the two items, -1 for an item not in the list.
DoMoveRecent(fromIndex, toIndex) ==
    /\ ribbonOps < MaxOps
    /\ fromIndex < Len(Recs)
    /\ toIndex < Len(Recs)
    /\ RecentsStep("moveRecent", <<fromIndex, toIndex>>, "none", FALSE,
                   MoveItem(Recs, fromIndex, toIndex))

\* all.getFavorites()
DoGetFavorites ==
    /\ favorites' = List(Favs)
    /\ last' = RibbonOp("getFavorites", "none", "none", Favs, <<>>, FALSE)
    /\ UNCHANGED <<catalogVars, recents, storage, calls, batch, ribbonOps>>

\* all.getRecents()
DoGetRecents ==
    /\ recents' = List(Recs)
    /\ last' = RibbonOp("getRecents", "none", "none", Recs, <<>>, FALSE)
    /\ UNCHANGED <<catalogVars, favorites, storage, calls, batch, ribbonOps>>

\* The catalog after all.init().
AfterInit == InitIndex(CatalogState(<<>>, EmptyIndex, <<>>, <<>>, AllDefaults, 0))

\* The catalog after all.init() and all.build(ExtWide, true).
AfterInitWide == Build(AfterInit, ExtWide, TRUE)

InitRibbon(s, op, d) ==
    /\ collection = s.collection
    /\ index = s.index
    /\ fields = s.fields
    /\ universal = s.universal
    /\ defaults = s.defaults
    /\ builds = s.builds
    /\ calls = [c \in CallIds |-> IdleCall]
    /\ batch = "none"
    /\ favorites = NullList
    /\ recents = NullList
    /\ ribbonOps = 0
    /\ last = [op |-> op, d |-> d, visible |-> TRUE, call |-> 0,
               threw |-> FALSE, rep |-> 1]

\* Ten favorites as an earlier session persisted them.
StoredFavorites ==
    << [pID |-> "point", geom |-> "point"],
       [pID |-> "line", geom |-> "line"],
       [pID |-> "area", geom |-> "area"],
       [pID |-> "relation", geom |-> "relation"],
       [pID |-> "address", geom |-> "point"],
       [pID |-> "address", geom |-> "area"],
       [pID |-> "shop", geom |-> "point"],
       [pID |-> "shop", geom |-> "area"],
       [pID |-> "bakery", geom |-> "point"],
       [pID |-> "pedestrian", geom |-> "line"] >>

\* Thirty recents as an earlier session persisted them.
StoredRecents ==
    << [pID |-> "point", geom |-> "point"],
       [pID |-> "line", geom |-> "line"],
       [pID |-> "area", geom |-> "area"],
       [pID |-> "relation", geom |-> "relation"],
       [pID |-> "address", geom |-> "point"],
       [pID |-> "address", geom |-> "area"],
       [pID |-> "shop", geom |-> "point"],
       [pID |-> "shop", geom |-> "area"],
       [pID |-> "bakery", geom |-> "point"],
       [pID |-> "pedestrian", geom |-> "line"],
       [pID |-> "pedestrian", geom |-> "area"],
       [pID |-> "cafe_brand", geom |-> "point"],
       [pID |-> "cafe_brand", geom |-> "area"],
       [pID |-> "common", geom |-> "area"],
       [pID |-> "wide1", geom |-> "point"],
       [pID |-> "wide1", geom |-> "line"],
       [pID |-> "wide1", geom |-> "area"],
       [pID |-> "wide1", geom |-> "relation"],
       [pID |-> "wide2", geom |-> "point"],
       [pID |-> "wide2", geom |-> "line"],
       [pID |-> "wide2", geom |-> "area"],
       [pID |-> "wide2", geom |-> "relation"],
       [pID |-> "wide3", geom |-> "point"],
       [pID |-> "wide3", geom |-> "line"],
       [pID |-> "wide3", geom |-> "area"],
       [pID |-> "wide3", geom |-> "relation"],
       [pID |-> "wide4", geom |-> "point"],
       [pID |-> "wide4", geom |-> "line"],
       [pID |-> "wide4", geom |-> "area"],
       [pID |-> "wide4", geom |-> "relation"] >>

\* The favorites operations, on the built-in catalog, from no persisted
\* favorites or a persisted list of nine or ten.
InitFav ==
    /\ InitRibbon(AfterInit, "init", "builtin")
    /\ \E stored \in {NullList, List(StoredFavorites), List(SubSeq(StoredFavorites, 1, 9))} :
          storage = [preset_favorites |-> stored, preset_recents |-> NullList]

\* The (preset, geometry) a caller gives to the favorites operations.
FavoriteInputs == {<<"bakery", "vertex">>, <<"cafe_brand", "point">>,
                   <<"cafe_brand", "area">>}

\* The (fromIndex, toIndex) a caller gives to moveFavorite.
FavoriteMoves == {<<0, 1>>, <<9, 0>>, <<0, 0>>, <<-1, 0>>, <<0, 10>>}

NextFav ==
    \/ \E a \in FavoriteInputs : DoToggleFavorite(a[1], a[2])
    \/ \E a \in FavoriteInputs : DoAddFavorite(a[1], a[2])
    \/ \E a \in FavoriteInputs : DoRemoveFavorite(a[1], a[2])
    \/ \E m \in FavoriteMoves : DoMoveFavorite(m[1], m[2])

SpecFav == InitFav /\ [][NextFav]_vars

\* The recents operations, on the built-in and the wide catalog, from no
\* persisted recents or a persisted list of twenty-nine or thirty.
InitRec ==
    /\ InitRibbon(AfterInitWide, "build", "extWide")
    /\ \E stored \in {NullList, List(StoredRecents), List(SubSeq(StoredRecents, 1, 29))} :
          storage = [preset_favorites |-> NullList, preset_recents |-> stored]

\* The (preset, geometry, inIntro) a caller gives to setMostRecent.
RecentInputs == {<<"bakery", "vertex", FALSE>>, <<"bakery", "line", FALSE>>,
                 <<"wide1", "line", FALSE>>, <<"multipolygon", "area", FALSE>>,
                 <<"cafe_brand", "line", FALSE>>, <<"bakery", "line", TRUE>>}

NextRec ==
    \/ \E a \in RecentInputs : DoSetMostRecent(a[1], a[2], a[3])
    \/ \E a \in RecentInputs : DoRemoveRecent(a[1], a[2])
    \/ \E fromIndex \in {-1, 0, 29}, toIndex \in {-1, 0, 1} :
          DoMoveRecent(fromIndex, toIndex)

SpecRec == InitRec /\ [][NextRec]_vars

\* The favorites and the recents operations together, on the built-in and the
\* wide catalog, each list from nothing persisted or from a full persisted list.
InitRibbonBoth ==
    /\ InitRibbon(AfterInitWide, "build", "extWide")
    /\ \E f \in {NullList, List(StoredFavorites)}, r \in {NullList, List(StoredRecents)} :
          storage = [preset_favorites |-> f, preset_recents |-> r]

NextRibbon ==
    \/ NextFav
    \/ NextRec

SpecRibbon == InitRibbonBoth /\ [][NextRibbon]_vars

\* Thirty-one recents, as storage written by something else can hold them.
StoredRecentsOver == StoredRecents \o << [pID |-> "multipolygon", geom |-> "area"] >>

\* Stored recents with entries that are no longer valid: an unknown preset id,
\* a geometry the preset does not list, no pID; and with a vertex and a point
\* entry of one preset.
StoredRecentsMixed ==
    << [pID |-> "bakery", geom |-> "vertex"],
       [pID |-> "gone", geom |-> "point"],
       [pID |-> "point", geom |-> "point"],
       [pID |-> "bakery", geom |-> "line"],
       [pID |-> "bakery", geom |-> "point"],
       [pID |-> "", geom |-> "point"],
       [pID |-> "wide1", geom |-> "line"] >>

\* Stored favorites of which some are valid only against the built-in catalog
\* (address as an area), one only against ext1 (kiosk) and one against none.
StoredFavoritesMixed ==
    << [pID |-> "shop", geom |-> "point"],
       [pID |-> "gone", geom |-> "point"],
       [pID |-> "address", geom |-> "area"],
       [pID |-> "kiosk", geom |-> "point"],
       [pID |-> "bakery", geom |-> "vertex"],
       [pID |-> "line", geom |-> "" ] >>

\* The catalog operations and the lists together: a presetIndex as
\* constructed, with nothing persisted or with persisted lists.
InitReload ==
    /\ InitCatalog
    /\ favorites = NullList
    /\ recents = NullList
    /\ ribbonOps = 0
    /\ \E s \in {[preset_favorites |-> NullList, preset_recents |-> NullList],
                  [preset_favorites |-> List(StoredFavoritesMixed),
                   preset_recents |-> List(StoredRecentsMixed)]} : storage = s

\* One fromExternal call; the presets a caller holds are presets of the
\* collection.
NextReload ==
    \/ DoInit
    \/ DoReset
    \/ \E ext \in {"ext1", "extBad"} : FromExternal(1, ext)
    \/ FetchThen(1)
    \/ FetchCatch(1)
    \/ DoGetFavorites
    \/ DoGetRecents
    \/ DoMoveFavorite(1, 0)
    \/ Item(collection, "cafe_brand") # NoPreset /\ DoAddFavorite("cafe_brand", "point")
    \/ Item(collection, "cafe_brand") # NoPreset /\ DoSetMostRecent("cafe_brand", "point", FALSE)

SpecReload == InitReload /\ [][NextReload]_vars

\* The recents operations from whatever the storage slot can hold.
InitRecAny ==
    /\ InitRibbon(AfterInitWide, "build", "extWide")
    /\ \E stored \in {NullList, List(StoredRecents), List(SubSeq(StoredRecents, 1, 29)),
                       List(StoredRecentsOver), List(StoredRecentsMixed)} :
          storage = [preset_favorites |-> NullList, preset_recents |-> stored]

SpecRecAny == InitRecAny /\ [][NextRec]_vars

(***************************************************************************)
(* Properties of the catalog, the index and the matcher                    *)
(***************************************************************************)
\* A preset without its identity: what it was built from and its visibility.
Content(p) == [p EXCEPT !.gen = 0]

Contents(seq) == [i \in 1..Len(seq) |-> Content(seq[i])]

Ids(seq) == [i \in 1..Len(seq) |-> seq[i].id]

\* The presets of a collection that belong in the bucket (g, k), in
\* collection order.
Qualifying(coll, g, k) ==
    SelectSeq(coll, LAMBDA p : SeqHas(p.geometry, g) /\ HasKey(p.tags, k))

HasAddrKey(tags) == \E i \in 1..Len(tags) : IsAddrKey(tags[i][1])

\* The presets in the buckets of the keys of tags.
Candidates(idx, tags, g) ==
    {idx[g][tags[i][1]][j] : <<i, j>> \in
        {ij \in (1..Len(tags)) \X (1..20) : ij[2] <= Len(idx[g][tags[ij[1]][1]])}}

\* C1: in every state, matchTags returns a preset for every tag set and every
\* geometry, never undefined; when no indexed preset is selected and no address
\* candidate applies it returns the fallback preset of the geometry, the
\* preset whose id is the geometry (point for a vertex).
C1_MatchTagsNeverEmpty ==
    last.op = "matchTags" =>
        \A tags \in TagSets, g \in Geometries :
            /\ last.result[tags][g] # NoPreset
            /\ (/\ \A p \in Candidates(index, tags, g) : MatchScore(p, tags) < 0
                /\ ~(HasAddrKey(tags) /\ index[g]["addr:*"] # <<>>))
               => last.result[tags][g].id = (IF g = "vertex" THEN "point" ELSE g)

\* C2: in every state, every bucket index[g][k] holds exactly the presets of
\* the current collection that list g and have the key k, each once, in
\* collection order, and nothing left from an earlier build.
C2_IndexIsExactlyTheQualifyingPresets ==
    \A g \in Geometries, k \in Keys : index[g][k] = Qualifying(collection, g, k)

\* C3: a rebuild with the same input as the operation before it (build after
\* the same build, init after init) leaves every bucket with the same
\* contents in the same order.
C3_SameRebuildKeepsBuckets ==
    [][(last'.op \in {"build", "init"} /\ last'.rep = 2 /\ ~last'.threw)
        => BucketIds(index') = BucketIds(index)]_vars

\* What one fromExternal call with this outcome produces on its own.
Alone(op, ext) ==
    IF op = "fetchCatch" THEN InitIndex(ResetIndex(Cat))
    ELSE ThenHandler(ResetIndex(Cat), Catalog(ext))

\* C7: when overlapping fromExternal calls have all completed (and nothing
\* else touched the catalog meanwhile), the collection, the fields and the
\* index are those the last completion would have produced on its own.
C7_LastCompletionWins ==
    (/\ last.op \in {"fetchThen", "fetchCatch"}
     /\ batch = "overlap"
     /\ \A c \in CallIds : ~Pending(c))
    => /\ Contents(collection) = Contents(Alone(last.op, last.d).collection)
       /\ Ids(fields) = Ids(Alone(last.op, last.d).fields)
       /\ \A g \in Geometries, k \in Keys :
             Contents(index[g][k]) = Contents(Alone(last.op, last.d).index[g][k])

\* The collection, fields and index hold the built-in catalog and nothing else.
BuiltinOnly ==
    /\ Ids(collection) = Ids(Builtin.presets) \o Ids(Builtin.categories)
    /\ \A i \in 1..Len(Builtin.presets) :
          /\ collection[i].tags = Builtin.presets[i].tags
          /\ collection[i].geometry = Builtin.presets[i].geometry
          /\ collection[i].visible
    /\ Ids(fields) = Ids(Builtin.fields)
    /\ Ids(universal) = Ids(SelectSeq(Builtin.fields, LAMBDA f : f.universal))
    /\ \A g \in Geometries, k \in Keys : index[g][k] = Qualifying(collection, g, k)

\* C8: done is called exactly once for every fromExternal call that has
\* completed and not before; when the fetch failed (or the then-handler threw)
\* the index given to done holds exactly the built-in catalog.
C8_DoneOnceAndBuiltinOnFailure ==
    /\ \A c \in CallIds : calls[c].done = (IF calls[c].st = "finished" THEN 1 ELSE 0)
    /\ (last.op = "fetchCatch" \/ (last.op = "fetchThen" /\ last.threw))
       => (BuiltinOnly /\ calls[last.call].done = 1)

C8_Witness ==
    /\ last.op = "fetchCatch"
    /\ batch = "overlap"
    /\ calls[last.call].done = 1
    /\ \E c \in CallIds : calls[c].st = "finished" /\ c # last.call

\* C9: when the tags have an addr: key, the addr:* bucket of the geometry is
\* not empty and the best-scoring match is absent or a fallback preset,
\* matchTags returns the first preset of the addr:* bucket; when the best
\* match is not a fallback preset, matchTags returns that match.
C9_AddressCandidate ==
    last.op = "matchTags" =>
        \A tags \in TagSets, g \in Geometries :
            LET best == BestMatch(index, tags, g).match
                absent == \A p \in Candidates(index, tags, g) : MatchScore(p, tags) < 0
            IN  /\ (/\ HasAddrKey(tags)
                    /\ index[g]["addr:*"] # <<>>
                    /\ (absent \/ IsFallback(best)))
                   => last.result[tags][g] = index[g]["addr:*"][1]
                /\ (~absent /\ ~IsFallback(best)) => last.result[tags][g] = best

C9_Witness ==
    /\ last.op = "matchTags"
    /\ \E tags \in TagSets, g \in Geometries :
          /\ HasAddrKey(tags)
          /\ index[g]["addr:*"] # <<>>
          /\ BestMatch(index, tags, g).match # NoPreset
          /\ IsFallback(BestMatch(index, tags, g).match)
          /\ last.result[tags][g] = index[g]["addr:*"][1]
    /\ \E tags \in TagSets, g \in Geometries :
          /\ HasAddrKey(tags)
          /\ index[g]["addr:*"] # <<>>
          /\ BestMatch(index, tags, g).match # NoPreset
          /\ ~IsFallback(BestMatch(index, tags, g).match)
          /\ last.result[tags][g] = BestMatch(index, tags, g).match

(***************************************************************************)
(* Properties of the favorites and the recents                             *)
(***************************************************************************)
\* The (preset id, geometry) pairs of a list.
Pairs(items) == {Minified(items[i]) : i \in 1..Len(items)}

\* C4: the favorites list never holds more than 10 items, whatever
\* toggleFavorite, addFavorite, removeFavorite and moveFavorite calls were
\* made from the default favorites or a persisted list of at most 10.
C4_FavoritesAtMostTen == Len(Favs) <= MaxFavorites

\* C5: the recents list never holds more than 30 items, whatever
\* setMostRecent, removeRecent and moveRecent calls were made from no or at
\* most 30 persisted recents; when setMostRecent inserts an item that is not
\* in a list of exactly 30, the list becomes the new item followed by the
\* first 29 items of the list: the last item is the one removed.
C5_RecentsAtMostThirty ==
    /\ Len(Recs) <= MaxRecents
    /\ (/\ last.op = "setMostRecent"
        /\ last.events # <<>>
        /\ Len(last.pre) = MaxRecents
        /\ MatchingIndex(last.pre, Item(collection, last.pid), last.geometry) = -1)
       => recents.items = <<RibbonItem(Item(collection, last.pid), last.geometry, "recent")>>
                    \o SubSeq(last.pre, 1, MaxRecents - 1)

C5_Witness ==
    /\ last.op = "setMostRecent"
    /\ last.events # <<>>
    /\ Len(last.pre) = MaxRecents
    /\ MatchingIndex(last.pre, Item(collection, last.pid), last.geometry) = -1
    /\ Len(recents.items) = MaxRecents
    /\ Matches(recents.items[1], Item(collection, last.pid), last.geometry)
    /\ Pairs(recents.items) = (Pairs(last.pre) \ {Minified(last.pre[MaxRecents])})
                        \cup {[pID |-> last.pid, geom |-> last.geometry]}

\* C6: addFavorite with a pair that is not a favorite, on a list of 10,
\* leaves the list as it was: same items, same order, same length.
C6_AddFavoriteAtCapacityRejects ==
    (/\ last.op = "addFavorite"
     /\ ~last.threw
     /\ Len(last.pre) = MaxFavorites
     /\ MatchingIndex(last.pre, Item(collection, last.pid), last.geometry) = -1)
    => favorites.items = last.pre

\* C10: after two toggleFavorite calls in a row with the same pair the set
\* of favorite (preset id, geometry) pairs is the set before the two calls,
\* unless the first call added the pair to a list of 10 (and so evicted the
\* last item).
C10_ToggleTwiceRestoresMembership ==
    (/\ last.op = "toggleFavorite"
     /\ last.rep = 2
     /\ ~last.threw
     /\ ~(/\ Len(last.base) = MaxFavorites
          /\ MatchingIndex(last.base, Item(collection, last.pid), last.geometry) = -1))
    => Pairs(favorites.items) = Pairs(last.base)

\* C11: toggleFavorite with a pair that is not in a favorites list of exactly
\* 10 items removes the item at index 9, leaves the items at indices 0..8 as
\* they were, puts the new item at index 9, and the length is still 10.
C11_ToggleAtCapacityEvictsLast ==
    (/\ last.op = "toggleFavorite"
     /\ ~last.threw
     /\ Len(last.pre) = MaxFavorites
     /\ MatchingIndex(last.pre, Item(collection, last.pid), last.geometry) = -1)
    => /\ Len(favorites.items) = MaxFavorites
       /\ \A i \in 1..(MaxFavorites - 1) : favorites.items[i] = last.pre[i]
       /\ favorites.items[MaxFavorites]
              = RibbonItem(Item(collection, last.pid), last.geometry, "favorite")

C11_Witness ==
    /\ last.op = "toggleFavorite"
    /\ ~last.threw
    /\ Len(last.pre) = MaxFavorites
    /\ MatchingIndex(last.pre, Item(collection, last.pid), last.geometry) = -1
    /\ Len(favorites.items) = MaxFavorites
    /\ Minified(last.pre[MaxFavorites]) \notin Pairs(favorites.items)
    /\ Minified(favorites.items[MaxFavorites]) = [pID |-> last.pid, geom |-> last.geometry]

\* How many items of a list match (preset, geometry).
Count(items, preset, geometry) ==
    Cardinality({i \in 1..Len(items) : Matches(items[i], preset, geometry)})

\* The items of a list that do not match (preset, geometry), in order.
Others(items, preset, geometry) ==
    SelectSeq(items, LAMBDA item : ~Matches(item, preset, geometry))

\* setMostRecent went past its early returns and found an item equal to its
\* (preset, geometry) in the list.
SetMostRecentOfPresent ==
    /\ last.op = "setMostRecent"
    /\ last.events # <<>>
    /\ MatchingIndex(last.pre, Item(collection, last.pid), last.geometry) # -1

\* After setMostRecent the item is at index 0 and the only one equal to it,
\* the length is what it was and the other items keep their order.
MovedToFront ==
    /\ Matches(recents.items[1], Item(collection, last.pid), last.geometry)
    /\ Count(recents.items, Item(collection, last.pid), last.geometry) = 1
    /\ Len(recents.items) = Len(last.pre)
    /\ Others(recents.items, Item(collection, last.pid), last.geometry)
           = Others(last.pre, Item(collection, last.pid), last.geometry)

\* C12 (as stated): for any recents list, of any length reachable or loadable
\* from storage, that holds an item equal to (preset, geometry), setMostRecent
\* for a searchable preset outside the guided tour leaves that item at index
\* 0, keeps exactly one item equal to it, keeps the length and keeps the
\* relative order of the other items.
C12_SetMostRecentMovesToFront == SetMostRecentOfPresent => MovedToFront

\* C12 (amended): the same, for a list of at most 30 items that holds exactly
\* one item equal to (preset, geometry).
C12_SetMostRecentMovesToFrontWithinLimit ==
    (/\ SetMostRecentOfPresent
     /\ Len(last.pre) <= MaxRecents
     /\ Count(last.pre, Item(collection, last.pid), last.geometry) = 1)
    => MovedToFront

C12_Witness ==
    /\ SetMostRecentOfPresent
    /\ Len(last.pre) = MaxRecents
    /\ Count(last.pre, Item(collection, last.pid), last.geometry) = 1
    /\ ~Matches(last.pre[1], Item(collection, last.pid), last.geometry)
    /\ MovedToFront

\* moveItem's early return: the indices are equal, negative or not below n.
MoveRejected(fromIndex, toIndex, n) ==
    \/ fromIndex = toIndex
    \/ fromIndex < 0 \/ toIndex < 0
    \/ fromIndex >= n \/ toIndex >= n

\* new is old with the item at fromIndex relocated to toIndex: the same
\* length, the same items, the other items in their order.
Relocated(old, new, fromIndex, toIndex) ==
    /\ Len(new) = Len(old)
    /\ new[toIndex + 1] = old[fromIndex + 1]
    /\ RemoveAt(new, toIndex) = RemoveAt(old, fromIndex)

\* C13: moveFavorite and moveRecent change nothing (the list, what is
\* persisted, no notification, no exception) when the indices are equal,
\* negative or not below the list length (moveRecent: when an item is not in
\* the list, its index being -1); otherwise the item formerly at fromIndex is
\* at toIndex, the length is the same and the other items keep their order.
C13_MoveIsNoOpOrRelocation ==
    [][/\ last'.op = "moveFavorite" =>
            IF MoveRejected(last'.pid[1], last'.pid[2], Len(Favs))
                THEN /\ Favs' = Favs
                     /\ storage' = storage
                     /\ last'.events = <<>>
                     /\ ~last'.threw
                ELSE /\ Relocated(Favs, Favs', last'.pid[1], last'.pid[2])
                     /\ ~last'.threw
       /\ last'.op = "moveRecent" =>
            IF MoveRejected(last'.pid[1], last'.pid[2], Len(Recs))
                THEN /\ Recs' = Recs
                     /\ storage' = storage
                     /\ last'.events = <<>>
                     /\ ~last'.threw
                ELSE /\ Relocated(Recs, Recs', last'.pid[1], last'.pid[2])
                     /\ ~last'.threw]_vars

C13_Witness ==
    /\ last.op = "moveRecent"
    /\ ~MoveRejected(last.pid[1], last.pid[2], Len(last.pre))
    /\ last.pid[1] > last.pid[2] + 1
    /\ recents.items[last.pid[2] + 1] = last.pre[last.pid[1] + 1]
    /\ recents.items # last.pre
    /\ favorites.items # <<>>

\* The storage slot holds the (pID, geom) of every item of the list, in order.
Persisted(slot, items) ==
    /\ ~slot.null
    /\ Len(slot.items) = Len(items)
    /\ \A i \in 1..Len(items) :
          slot.items[i] = [pID |-> items[i].preset.id, geom |-> items[i].geometry]

\* C14: after a favorites operation that changed the list, preset_favorites
\* holds the whole minified favorites list in order and favoritePreset (and
\* not recentsChange) was dispatched; after a recents operation that changed
\* the list, preset_recents holds the whole minified recents list in order and
\* recentsChange (and not favoritePreset) was dispatched.
C14_MutationPersistsAndNotifies ==
    /\ (/\ last.op \in {"toggleFavorite", "addFavorite", "removeFavorite", "moveFavorite"}
        /\ favorites.items # last.pre)
       => /\ Persisted(storage.preset_favorites, favorites.items)
          /\ last.events = <<"favoritePreset">>
    /\ (/\ last.op \in {"setMostRecent", "removeRecent", "moveRecent"}
        /\ recents.items # last.pre)
       => /\ Persisted(storage.preset_recents, recents.items)
          /\ last.events = <<"recentsChange">>

C14_Witness ==
    /\ last.op = "setMostRecent"
    /\ recents.items # last.pre
    /\ Len(recents.items) > 1
    /\ Persisted(storage.preset_recents, recents.items)
    /\ last.events = <<"recentsChange">>
    /\ ~favorites.null
    /\ Len(favorites.items) > 1
    /\ Persisted(storage.preset_favorites, favorites.items)

\* A persisted entry names a preset of the collection and a geometry (vertex
\* taken as point) that the preset supports.
ValidEntry(coll, d) ==
    /\ d.pID # ""
    /\ d.geom # ""
    /\ \E i \in 1..Len(coll) :
          /\ coll[i].id = d.pID
          /\ \/ SeqHas(coll[i].geometry, IF d.geom = "vertex" THEN "point" ELSE d.geom)
             \/ d.geom \in {"point", "vertex"} /\ SeqHas(coll[i].geometry, "vertex")

\* The valid entries of a persisted list, in order, vertex written as point.
ValidEntries(coll, ds) ==
    LET valid == SelectSeq(ds, LAMBDA d : ValidEntry(coll, d))
    IN  [i \in 1..Len(valid) |->
            [pID |-> valid[i].pID,
             geom |-> IF valid[i].geom = "vertex" THEN "point" ELSE valid[i].geom]]

\* The items of a list are made of the presets the collection holds.
OfCollection(coll, items) ==
    \A i \in 1..Len(items) : items[i].preset = Item(coll, items[i].preset.id)

\* C15: the first access after init or reset gives exactly the persisted
\* entries, in order, whose preset id is in the collection and whose geometry
\* (vertex taken as point) the preset supports, without an error; with
\* nothing persisted the favorites are the three generic items point, line
\* and area, and the recents are empty.
C15_FirstAccessLoadsValidEntries ==
    [][/\ (last.op \in {"init", "reset"} /\ last'.op = "getFavorites") =>
            /\ ~last'.threw
            /\ OfCollection(collection, favorites'.items)
            /\ MinifiedItems(favorites'.items)
                   = IF storage.preset_favorites.null THEN DefaultFavorites
                     ELSE ValidEntries(collection, storage.preset_favorites.items)
       /\ (last.op \in {"init", "reset"} /\ last'.op = "getRecents") =>
            /\ ~last'.threw
            /\ OfCollection(collection, recents'.items)
            /\ MinifiedItems(recents'.items)
                   = IF storage.preset_recents.null THEN <<>>
                     ELSE ValidEntries(collection, storage.preset_recents.items)]_vars

\* The top-level keys of an areaKeys result.
TopLevelKeys(areaKeys) == {areaKeys[j][1] : j \in 1..Len(areaKeys)}

\* C16: areaKeys() never has barrier, highway, footway, railway or type as a
\* top-level key, and a key is a top-level key exactly when it is the first
\* tag key of a preset that is no suggestion and no replacement, supports the
\* area geometry, and the key is none of those five.
C16_AreaKeysTopLevel ==
    last.op = "areaKeys" =>
        /\ TopLevelKeys(last.result)
               \cap {"barrier", "highway", "footway", "railway", "type"} = {}
        /\ \A k \in Keys \cup TopLevelKeys(last.result) :
              k \in TopLevelKeys(last.result)
              <=> /\ k \notin {"barrier", "highway", "footway", "railway", "type"}
                  /\ \E i \in 1..Len(collection) :
                        /\ ~collection[i].suggestion
                        /\ ~collection[i].replacement
                        /\ SeqHas(collection[i].geometry, "area")
                        /\ collection[i].tags # <<>>
                        /\ collection[i].tags[1][1] = k

C16_Witness ==
    /\ last.op = "areaKeys"
    /\ "shop" \in TopLevelKeys(last.result)
    /\ "craft" \in TopLevelKeys(last.result)
    /\ "amenity" \notin TopLevelKeys(last.result)
    /\ "highway" \notin TopLevelKeys(last.result)
    /\ \E i \in 1..Len(collection) :
          /\ SeqHas(collection[i].geometry, "area")
          /\ collection[i].tags # <<>>
          /\ collection[i].tags[1][1] = "highway"
    /\ \E i \in 1..Len(collection) :
          /\ collection[i].suggestion
          /\ SeqHas(collection[i].geometry, "area")
          /\ collection[i].tags[1][1] = "amenity"

\* The presets matchTags visits, in the order it visits them: the buckets of
\* the keys of tags from key i on, each bucket in its order.
RECURSIVE Encountered(_, _, _, _)
Encountered(idx, tags, g, i) ==
    IF i > Len(tags) THEN <<>>
    ELSE idx[g][tags[i][1]] \o Encountered(idx, tags, g, i + 1)

\* The first of the visited presets that has the highest score.
FirstBest(enc, tags) ==
    enc[CHOOSE i \in 1..Len(enc) :
            /\ \A j \in 1..Len(enc) : MatchScore(enc[j], tags) <= MatchScore(enc[i], tags)
            /\ \A j \in 1..(i - 1) : MatchScore(enc[j], tags) < MatchScore(enc[i], tags)]

\* C17: when a visited preset scores above -1 and the address candidate does
\* not take over, matchTags returns the visited preset with the highest
\* score, and of several with that score the one visited first (keys in the
\* order of the tags, each bucket in its order).
C17_FirstBestScoreWins ==
    last.op = "matchTags" =>
        \A tags \in TagSets, g \in Geometries :
            LET enc == Encountered(index, tags, g, 1)
            IN  (/\ \E i \in 1..Len(enc) : MatchScore(enc[i], tags) > -1
                 /\ ~(/\ HasAddrKey(tags)
                      /\ index[g]["addr:*"] # <<>>
                      /\ IsFallback(FirstBest(enc, tags))))
                => last.result[tags][g] = FirstBest(enc, tags)

C17_Witness ==
    /\ last.op = "matchTags"
    /\ \E tags \in TagSets, g \in Geometries :
          LET enc == Encountered(index, tags, g, 1)
          IN  /\ \E i, j \in 1..Len(enc) :
                    /\ i < j
                    /\ enc[i] # enc[j]
                    /\ MatchScore(enc[i], tags) > -1
                    /\ MatchScore(enc[i], tags) = MatchScore(enc[j], tags)
                    /\ enc[i] = FirstBest(enc, tags)
              /\ ~HasAddrKey(tags)
              /\ last.result[tags][g] = FirstBest(enc, tags)

\* C18: every preset matchTags returns is the object the collection holds
\* under its id, never an object that an earlier build indexed and a later
\* build replaced.
C18_MatchTagsReturnsCurrentObject ==
    last.op = "matchTags" =>
        \A tags \in TagSets, g \in Geometries :
            last.result[tags][g] # NoPreset
            => last.result[tags][g] = Item(collection, last.result[tags][g].id)

\* The entries of a storage slot that are valid against a collection.
StoredValid(slot, coll) ==
    {ValidEntries(coll, slot.items)[i] : i \in 1..Len(ValidEntries(coll, slot.items))}

\* The entries a storage slot holds.
Stored(slot) == {slot.items[i] : i \in 1..Len(slot.items)}

\* C19: when a list was read (by getFavorites, getRecents or an operation
\* that calls them) while the fetch of fromExternal was pending, then once
\* the fetch has completed successfully the list in memory holds every
\* persisted entry that is valid against the catalog, and so does the
\* persisted list after the next operation that adds to or reorders the list:
\* the list is not kept empty from the time the collection was empty.
C19_PersistedListsSurviveReload ==
    [][/\ (last'.op = "fetchThen" /\ ~last'.threw /\ ~favorites'.null)
          => StoredValid(storage'.preset_favorites, collection')
                 \subseteq Pairs(favorites'.items)
       /\ (last'.op = "fetchThen" /\ ~last'.threw /\ ~recents'.null)
          => StoredValid(storage'.preset_recents, collection')
                 \subseteq Pairs(recents'.items)
       /\ (last'.op \in {"addFavorite", "moveFavorite"} /\ last'.events # <<>>)
          => StoredValid(storage.preset_favorites, collection)
                 \subseteq Stored(storage'.preset_favorites)
       /\ (last'.op = "setMostRecent" /\ last'.events # <<>>)
          => StoredValid(storage.preset_recents, collection)
                 \subseteq Stored(storage'.preset_recents)]_vars

\* No two items of the list have the same preset id and the same geometry.
NoDuplicates(items) ==
    \A i, j \in 1..Len(items) :
        (items[i].preset.id = items[j].preset.id /\ items[i].geometry = items[j].geometry)
        => i = j

\* C20: from persisted lists without duplicates, whatever toggleFavorite,
\* addFavorite, removeFavorite, moveFavorite, setMostRecent, removeRecent and
\* moveRecent calls were made, neither the favorites nor the recents hold two
\* items with the same preset id and the same geometry, and no item has the
\* geometry vertex.
C20_NoDuplicateItems ==
    /\ NoDuplicates(Favs)
    /\ NoDuplicates(Recs)
    /\ \A i \in 1..Len(Favs) : Favs[i].geometry # "vertex"
    /\ \A i \in 1..Len(Recs) : Recs[i].geometry # "vertex"

C20_Witness ==
    /\ last.op = "addFavorite"
    /\ MatchingIndex(last.pre, Item(collection, last.pid), last.geometry) # -1
    /\ favorites.items = last.pre
    /\ Len(favorites.items) > MaxFavorites
    /\ ~recents.null
    /\ Len(recents.items) > 1

====
